---- MODULE Spec2Model ----
(***************************************************************************)
(* A model of PETScWrappers::MPI::BlockSparseMatrix                        *)
(* (source/lac/petsc_parallel_block_sparse_matrix.cc): the R x C grid of   *)
(* block wrappers, the two BlockIndices, the MATNEST aggregate handle and  *)
(* the native (PETSc) resources they refer to, with their reference        *)
(* counts.  One process of the group is modelled.                          *)
(***************************************************************************)
EXTENDS Integers, Sequences, FiniteSets, TLC

\* ----------------------------------------------------------------- bounds
\* largest number of block rows / block columns given to reinit(R, C)
MaxDim == 2
\* largest number of cells of a grid given to reinit(R, C)
MaxCells == 4
\* number of blocks a caller replaces in a synchronized grid before the
\* grid is given a new shape
MaxReplace == 1

\* ------------------------------------------------------- process groups
MPI_COMM_NULL == "MPI_COMM_NULL"
PETSC_COMM_SELF == "PETSC_COMM_SELF"
MPI_COMM_WORLD == "MPI_COMM_WORLD"

\* --------------------------------------------------------------- state
VARIABLES
  mats,                 \* native resources: handle -> Mat object (refs = 0: freed)
  replaced,             \* blocks replaced so far (bounded by MaxReplace)
  alive,                \* the BlockSparseMatrix object exists
  sub_objects,          \* the grid: (r, c) -> block wrapper pointer
  nbr, nbc,             \* n_block_rows(), n_block_cols()
  row_block_indices,    \* block sizes of the row BlockIndices
  column_block_indices, \* block sizes of the column BlockIndices
  petsc_nest_matrix,    \* aggregate handle, 0 = nullptr
  static_comm,          \* the function-local static of get_mpi_communicator
  op,                   \* the last operation, its arguments and its result
  log                   \* backend calls issued by the last operation, in order

vars == <<mats, replaced, alive, sub_objects, nbr, nbc, row_block_indices,
          column_block_indices, petsc_nest_matrix, static_comm, op, log>>

\* ------------------------------------------------------ native resources
\* A sequential (AIJ) or nested (MATNEST) native matrix object.
NewMat(type, comm, lr, gr, lc, gc, nnz) ==
  [type |-> type, comm |-> comm, lr |-> lr, gr |-> gr, lc |-> lc, gc |-> gc,
   nnz |-> nnz, typeset |-> type # "", prealloc |-> FALSE, setup |-> FALSE,
   no_off_proc |-> FALSE,
   asm |-> "none", nr |-> 0, nc |-> 0, subs |-> << >>, refs |-> 1,
   by |-> "user"]

Sum(f, S) ==
  LET RECURSIVE Acc(_)
      Acc(T) == IF T = {} THEN 0
                ELSE LET x == CHOOSE y \in T : TRUE IN f[x] + Acc(T \ {x})
  IN  Acc(S)

SeqSum(s) == Sum(s, DOMAIN s)

\* The resources the caller built before handing them to the composer:
\* four AIJ matrices on MPI_COMM_WORLD and five MATNEST compositions of
\* them (0 = a NULL sub-matrix).  Each sub-matrix carries one reference of
\* the caller and one of every nest that contains it.
UserAIJ(lr, gr, lc, gc, nnz, refs) ==
  [NewMat("aij", MPI_COMM_WORLD, lr, gr, lc, gc, nnz)
     EXCEPT !.prealloc = TRUE, !.setup = TRUE, !.asm = "end", !.refs = refs]

UserNest(nr, nc, subs, lr, gr, lc, gc) ==
  [NewMat("nest", MPI_COMM_WORLD, lr, gr, lc, gc, 0)
     EXCEPT !.setup = TRUE, !.asm = "end", !.nr = nr, !.nc = nc, !.subs = subs]

UserMats ==
  << UserAIJ(2, 3, 2, 3, 5, 5),
     UserAIJ(3, 4, 3, 4, 7, 3),
     UserAIJ(2, 3, 3, 4, 2, 3),
     UserAIJ(3, 4, 2, 3, 1, 2),
     UserNest(2, 2, <<1, 0, 0, 2>>, 5, 7, 5, 7),
     UserNest(2, 2, <<1, 3, 4, 2>>, 5, 7, 5, 7),
     UserNest(1, 2, <<1, 3>>, 2, 3, 5, 7),
     UserNest(2, 2, <<1, 0, 0, 0>>, 2, 3, 2, 3),
     UserNest(1, 2, <<0, 0>>, 0, 0, 0, 0) >>

\* the handles a caller passes to reinit(Mat): one plain matrix, the nests
InputMats == {1, 5, 6, 7, 8, 9}

\* the plain matrix and the nest with null sub-matrices
FewInputMats == {1, 5}

\* the slot of a resource that was freed; the allocator hands it out again
FreedMat ==
  [NewMat("", MPI_COMM_NULL, 0, 0, 0, 0, 0) EXCEPT !.refs = 0, !.by = "freed"]

Live(ms, h) == h \in DOMAIN ms /\ ms[h].refs > 0

\* the handle the next creation returns: the lowest free slot
AllocHandle(ms) ==
  IF \E h \in DOMAIN ms : ms[h] = FreedMat
  THEN CHOOSE h \in DOMAIN ms :
         ms[h] = FreedMat /\ \A g \in 1..(h - 1) : ms[g] # FreedMat
  ELSE Len(ms) + 1

\* free slots at the end of the table are dropped: the table ends at the
\* last object that exists
RECURSIVE TrimFreed(_)
TrimFreed(ms) ==
  IF Len(ms) > 0 /\ ms[Len(ms)] = FreedMat
  THEN TrimFreed(SubSeq(ms, 1, Len(ms) - 1))
  ELSE ms

Put(ms, h, m) == IF h = Len(ms) + 1 THEN Append(ms, m) ELSE [ms EXCEPT ![h] = m]

\* MatDestroy / PetscObjectDereference: drop one reference; the last
\* reference frees the object, and a nest then releases its references on
\* its sub-matrices.  A release of a freed object leaves refs < 0.
RECURSIVE Unref(_, _), UnrefSeq(_, _, _)
Unref(ms, h) ==
  IF h = 0 THEN ms
  ELSE LET m1 == [ms EXCEPT ![h].refs = @ - 1]
       IN  IF m1[h].refs # 0 THEN m1
           ELSE UnrefSeq([m1 EXCEPT ![h] = FreedMat], m1[h].subs, 1)
UnrefSeq(ms, subs, i) ==
  IF i > Len(subs) THEN ms ELSE UnrefSeq(Unref(ms, subs[i]), subs, i + 1)

RECURSIVE RefSeq(_, _, _)
RefSeq(ms, subs, i) ==
  IF i > Len(subs) THEN ms
  ELSE RefSeq(IF subs[i] = 0 THEN ms ELSE [ms EXCEPT ![subs[i]].refs = @ + 1],
              subs, i + 1)

\* ------------------------------------------ the state one operation threads
\* s.err # "none": an exception is propagating, the remaining steps are skipped
\* s.fail = k > 0: the k-th checked backend call from here reports an error
Ok(s) == s.err = "none"

Issue(s, call, h) ==
  [s EXCEPT !.log = Append(@, [call |-> call, h |-> h]),
            !.calls = @ + 1,
            !.fail = IF @ > 0 THEN @ - 1 ELSE 0,
            !.err = IF s.fail = 1 THEN "BackendError" ELSE @]

\* a creation call: the backend rejects the null communicator
IssueOn(s, call, h, comm) ==
  [Issue(s, call, h) EXCEPT
     !.err = IF s.fail = 1 \/ comm = MPI_COMM_NULL THEN "BackendError" ELSE @]

\* a call whose status cannot be an error (a NULL argument, a destructor)
Note(s, call, h) == [s EXCEPT !.log = Append(@, [call |-> call, h |-> h])]

\* ------------------------------------------------- native backend calls
\* The calls this file makes.  Each is skipped while an exception
\* propagates; each is logged; a call that reports an error has no effect
\* and raises ExcPETScError.  (Releases inside clear() and inside block
\* wrappers are not part of this file and are not logged.)
MatCreate(s, comm) ==
  IF ~Ok(s) THEN s
  ELSE LET h == AllocHandle(s.mats)
           t == IssueOn(s, "MatCreate", h, comm)
       IN  IF ~Ok(t) THEN t
           ELSE [t EXCEPT !.mats =
                   Put(@, h, [NewMat("", comm, 0, 0, 0, 0, 0)
                                EXCEPT !.by = "create_dummy_mat"])]

MatSetSizes(s, h, lr, lc, gr, gc) ==
  IF ~Ok(s) THEN s
  ELSE LET t == Issue(s, "MatSetSizes", h)
       IN  IF ~Ok(t) THEN t
           ELSE [t EXCEPT !.mats[h].lr = lr, !.mats[h].lc = lc,
                          !.mats[h].gr = gr, !.mats[h].gc = gc]

MatSetType(s, h, type) ==
  IF ~Ok(s) THEN s
  ELSE LET t == Issue(s, "MatSetType", h)
       IN  IF ~Ok(t) THEN t
           ELSE [t EXCEPT !.mats[h].type = type, !.mats[h].typeset = TRUE]

\* MatSeqAIJSetPreallocation and MatMPIAIJSetPreallocation with 0 nonzeros
MatSetPreallocation(s, h, call, nz) ==
  IF ~Ok(s) THEN s
  ELSE LET t == Issue(s, call, h)
       IN  IF ~Ok(t) THEN t
           ELSE [t EXCEPT !.mats[h].prealloc = TRUE, !.mats[h].nnz = nz]

MatSetUp(s, h) ==
  IF ~Ok(s) THEN s
  ELSE LET t == Issue(s, "MatSetUp", h)
       IN  IF ~Ok(t) THEN t ELSE [t EXCEPT !.mats[h].setup = TRUE]

MatSetOption(s, h) ==
  IF ~Ok(s) THEN s
  ELSE LET t == Issue(s, "MatSetOption", h)
       IN  IF ~Ok(t) THEN t ELSE [t EXCEPT !.mats[h].no_off_proc = TRUE]

MatAssemblyBegin(s, h) ==
  IF ~Ok(s) THEN s
  ELSE LET t == Issue(s, "MatAssemblyBegin", h)
       IN  IF ~Ok(t) THEN t ELSE [t EXCEPT !.mats[h].asm = "begin"]

MatAssemblyEnd(s, h) ==
  IF ~Ok(s) THEN s
  ELSE LET t == Issue(s, "MatAssemblyEnd", h)
       IN  IF ~Ok(t) THEN t
           ELSE [t EXCEPT !.mats[h].asm =
                   IF @ = "begin" THEN "end" ELSE "broken"]

MatDestroy(s, h) ==
  IF ~Ok(s) THEN s
  ELSE LET t == Issue(s, "MatDestroy", h)
       IN  IF ~Ok(t) THEN t ELSE [t EXCEPT !.mats = Unref(@, h)]

\* Sizes of a nest: a block row takes its size from its first non-NULL block
FirstIn(ms, hs) ==
  IF \E i \in DOMAIN hs : hs[i] # 0
  THEN ms[hs[CHOOSE i \in DOMAIN hs : hs[i] # 0 /\ \A j \in 1..(i-1) : hs[j] = 0]]
  ELSE NewMat("", MPI_COMM_NULL, 0, 0, 0, 0, 0)

NestRow(subs, n, r) == [c \in 1..n |-> subs[r * n + c]]
NestCol(subs, m, n, c) == [r \in 1..m |-> subs[(r - 1) * n + c + 1]]

MatCreateNest(s, comm, m, n, subs) ==
  IF ~Ok(s) THEN s
  ELSE LET h == AllocHandle(s.mats)
           t == IssueOn(s, "MatCreateNest", h, comm)
           rows == [r \in 0..(m - 1) |-> FirstIn(s.mats, NestRow(subs, n, r))]
           cols == [c \in 0..(n - 1) |-> FirstIn(s.mats, NestCol(subs, m, n, c))]
           nest == [NewMat("nest", comm,
                           Sum([r \in DOMAIN rows |-> rows[r].lr], DOMAIN rows),
                           Sum([r \in DOMAIN rows |-> rows[r].gr], DOMAIN rows),
                           Sum([c \in DOMAIN cols |-> cols[c].lc], DOMAIN cols),
                           Sum([c \in DOMAIN cols |-> cols[c].gc], DOMAIN cols),
                           0)
                      EXCEPT !.setup = TRUE, !.asm = "end", !.nr = m, !.nc = n,
                             !.subs = subs, !.by = "MatCreateNest"]
       IN  IF ~Ok(t) THEN t
           ELSE [t EXCEPT !.mats = RefSeq(Put(@, h, nest), subs, 1),
                          !.nest = h]

\* (variant) the handle is returned after MatAssemblyBegin
create_dummy_mat_unfinished(s, comm, lr, gr, lc, gc) ==
  LET dummy == AllocHandle(s.mats)
      s1 == MatCreate(s, comm)
      s2 == MatSetSizes(s1, dummy, lr, lc, gr, gc)
      s3 == MatSetType(s2, dummy, "aij")
      s4 == MatSetPreallocation(s3, dummy, "MatSeqAIJSetPreallocation", 0)
      s5 == MatSetPreallocation(s4, dummy, "MatMPIAIJSetPreallocation", 0)
      s6 == MatSetUp(s5, dummy)
      s7 == MatSetOption(s6, dummy)
      s8 == MatAssemblyBegin(s7, dummy)
  IN  IF Ok(s8) THEN [s8 EXCEPT !.dummy = dummy] ELSE s8

\* (variant) a process with at most one local row leaves the
\* preallocation and the set-up out
create_dummy_mat_fewrows(s, comm, lr, gr, lc, gc) ==
  LET dummy == AllocHandle(s.mats)
      s1 == MatCreate(s, comm)
      s2 == MatSetSizes(s1, dummy, lr, lc, gr, gc)
      s3 == MatSetType(s2, dummy, "aij")
      s4 == MatSetPreallocation(s3, dummy, "MatSeqAIJSetPreallocation", 0)
      s5 == MatSetPreallocation(s4, dummy, "MatMPIAIJSetPreallocation", 0)
      s6 == MatSetUp(s5, dummy)
      s7 == MatSetOption(IF lr <= 1 THEN s3 ELSE s6, dummy)
      s8 == MatAssemblyBegin(s7, dummy)
      s9 == MatAssemblyEnd(s8, dummy)
  IN  IF Ok(s9) THEN [s9 EXCEPT !.dummy = dummy] ELSE s9

\* create_dummy_mat: an empty, assembled AIJ matrix of the given sizes.
\* out.dummy is the returned handle; it is left as it was when the
\* factory raised.
create_dummy_mat(s, comm, lr, gr, lc, gc) ==
  LET dummy == AllocHandle(s.mats)
      s1 == MatCreate(s, comm)
      s2 == MatSetSizes(s1, dummy, lr, lc, gr, gc)
      s3 == MatSetType(s2, dummy, "aij")
      s4 == MatSetPreallocation(s3, dummy, "MatSeqAIJSetPreallocation", 0)
      s5 == MatSetPreallocation(s4, dummy, "MatMPIAIJSetPreallocation", 0)
      s6 == MatSetUp(s5, dummy)
      s7 == MatSetOption(s6, dummy)
      s8 == MatAssemblyBegin(s7, dummy)
      s9 == MatAssemblyEnd(s8, dummy)
  IN  IF Ok(s9) THEN [s9 EXCEPT !.dummy = dummy] ELSE s9

\* ------------------------------------------------------- block wrappers
\* A grid cell is a pointer to a block wrapper (BlockType): nullptr, a
\* wrapper of no native resource, or a wrapper of the resource `mat`.
NullPtr == [ptr |-> FALSE, mat |-> 0]
EmptyBlock == [ptr |-> TRUE, mat |-> 0]
BlockOf(h) == [ptr |-> TRUE, mat |-> h]

Grid(m, n) == (0..(m - 1)) \X (0..(n - 1))

\* size and group queries of a block wrapper (0 with no native resource)
Block_m(ms, b) == IF b.mat = 0 THEN 0 ELSE ms[b.mat].gr
Block_n(ms, b) == IF b.mat = 0 THEN 0 ELSE ms[b.mat].gc
Block_local_size(ms, b) == IF b.mat = 0 THEN 0 ELSE ms[b.mat].lr
Block_local_domain_size(ms, b) == IF b.mat = 0 THEN 0 ELSE ms[b.mat].lc
Block_n_nonzero_elements(ms, b) == IF b.mat = 0 THEN 0 ELSE ms[b.mat].nnz
Block_get_mpi_communicator(ms, b) ==
  IF b.mat = 0 THEN MPI_COMM_NULL ELSE ms[b.mat].comm

\* An index set: the indices of 0..size-1 that this process owns.  The
\* process modelled is the last of its group: its share of a dimension of
\* global size g and local size l is the contiguous range g-l .. g-1.
IndexSet(g, l) == [size |-> g, idx |-> (g - l)..(g - 1)]

\* ownership queries of a block wrapper
Block_locally_owned_range_indices(ms, b) ==
  IndexSet(ms[b.mat].gr, ms[b.mat].lr)
Block_locally_owned_domain_indices(ms, b) ==
  IndexSet(ms[b.mat].gc, ms[b.mat].lc)

\* new BlockType(A): the wrapper takes its own reference on A
NewBlockType(s, r, c, h) ==
  IF ~Ok(s) THEN s
  ELSE LET t == Issue(s, "PetscObjectReference", h)
       IN  IF ~Ok(t) THEN t
           ELSE [t EXCEPT !.mats[h].refs = @ + 1,
                          !.sub_objects[<<r, c>>] = BlockOf(h)]

\* delete sub_objects[r][c] for every cell, in row-major order
RECURSIVE DeleteBlocks(_, _)
DeleteBlocks(s, k) ==
  IF k >= s.nbr * s.nbc THEN s
  ELSE LET b == s.sub_objects[<<k \div s.nbc, k % s.nbc>>]
       IN  DeleteBlocks([s EXCEPT !.mats = Unref(@, b.mat)], k + 1)

\* release of the aggregate where no exception may leave (clear, destructor)
ReleaseNest(s) ==
  IF s.nest = 0 THEN s
  ELSE [s EXCEPT !.mats = Unref(@, s.nest), !.nest = 0]

\* clear(): destroys the aggregate, destroys and removes all blocks, 0 x 0
clear(s) ==
  [DeleteBlocks(ReleaseNest(s), 0)
     EXCEPT !.sub_objects = [p \in Grid(0, 0) |-> NullPtr],
            !.nbr = 0, !.nbc = 0, !.rbi = << >>, !.cbi = << >>]

\* destroy_matrix(petsc_nest_matrix): MatDestroy, a no-op on nullptr, and
\* the pointer is reset when the release succeeded
destroy_matrix(s) ==
  IF ~Ok(s) THEN s
  ELSE IF s.nest = 0 THEN Note(s, "MatDestroy", 0)
  ELSE LET t == MatDestroy(s, s.nest)
       IN  IF ~Ok(t) THEN t ELSE [t EXCEPT !.nest = 0]

\* BlockMatrixBase::collect_sizes: row sizes from block column 0, column
\* sizes from block row 0
BaseClass_collect_sizes(s) ==
  IF ~Ok(s) THEN s
  ELSE [s EXCEPT
          !.rbi = [r \in 1..s.nbr |-> Block_m(s.mats, s.sub_objects[<<r - 1, 0>>])],
          !.cbi = [c \in 1..s.nbc |-> Block_n(s.mats, s.sub_objects[<<0, c - 1>>])]]

\* ------------------------------------------------------- collect_sizes
\* (variant) the cells are scanned from the last to the first, so that the
\* first non-null block of a row or column is the one recorded
RECURSIVE ScanSizes_backward(_, _, _)
ScanSizes_backward(s, k, acc) ==
  IF k >= s.nbr * s.nbc THEN acc
  ELSE LET r == (s.nbr * s.nbc - 1 - k) \div s.nbc
           c == (s.nbr * s.nbc - 1 - k) % s.nbc
           b == s.sub_objects[<<r, c>>]
       IN  ScanSizes_backward(s, k + 1,
             IF b.ptr
             THEN [acc EXCEPT
                     !.comm = Block_get_mpi_communicator(s.mats, b),
                     !.row_sizes[r] = Block_m(s.mats, b),
                     !.col_sizes[c] = Block_n(s.mats, b),
                     !.row_local_sizes[r] = Block_local_size(s.mats, b),
                     !.col_local_sizes[c] = Block_local_domain_size(s.mats, b)]
             ELSE acc)

\* first loop: sizes and communicator of the non-null blocks, row-major,
\* every non-null block overwriting what an earlier one recorded
RECURSIVE ScanSizes(_, _, _)
ScanSizes(s, k, acc) ==
  IF k >= s.nbr * s.nbc THEN acc
  ELSE LET r == k \div s.nbc
           c == k % s.nbc
           b == s.sub_objects[<<r, c>>]
       IN  ScanSizes(s, k + 1,
             IF b.ptr
             THEN [acc EXCEPT
                     !.comm = Block_get_mpi_communicator(s.mats, b),
                     !.row_sizes[r] = Block_m(s.mats, b),
                     !.col_sizes[c] = Block_n(s.mats, b),
                     !.row_local_sizes[r] = Block_local_size(s.mats, b),
                     !.col_local_sizes[c] = Block_local_domain_size(s.mats, b)]
             ELSE acc)

\* (variant) the recorded sizes start at one
NoSizes_ones(m, n) ==
  [comm |-> MPI_COMM_NULL,
   row_sizes |-> [r \in 0..(m - 1) |-> 1],
   col_sizes |-> [c \in 0..(n - 1) |-> 1],
   row_local_sizes |-> [r \in 0..(m - 1) |-> 1],
   col_local_sizes |-> [c \in 0..(n - 1) |-> 1]]

\* the vectors row_sizes(m), col_sizes(n), row_local_sizes(m) and
\* col_local_sizes(n), value-initialized, and comm = MPI_COMM_NULL
NoSizes(m, n) ==
  [comm |-> MPI_COMM_NULL,
   row_sizes |-> [r \in 0..(m - 1) |-> 0],
   col_sizes |-> [c \in 0..(n - 1) |-> 0],
   row_local_sizes |-> [r \in 0..(m - 1) |-> 0],
   col_local_sizes |-> [c \in 0..(n - 1) |-> 0]]

\* (variant) the reference of the local handle is not given up
InstallDummy_keep(s, r, c) == NewBlockType(s, r, c, s.dummy)

\* sub_objects[r][c] = new BlockType(dummy); MatDestroy(&dummy)
InstallDummy(s, r, c) ==
  MatDestroy(NewBlockType(s, r, c, s.dummy), s.dummy)

\* (variant) every cell is taken for a null cell
NeedsDummy_always(s, r, c) == TRUE

\* if (!this->sub_objects[r][c])
NeedsDummy(s, r, c) == ~s.sub_objects[<<r, c>>].ptr

\* (variant) the row sizes and the column sizes change places
DummyFor_swapped(s, sz, r, c) ==
  create_dummy_mat(s, sz.comm,
                   sz.col_local_sizes[c], sz.col_sizes[c],
                   sz.row_local_sizes[r], sz.row_sizes[r])

\* the call of create_dummy_mat for cell (r, c)
DummyFor(s, sz, r, c) ==
  create_dummy_mat(s, sz.comm,
                   sz.row_local_sizes[r], sz.row_sizes[r],
                   sz.col_local_sizes[c], sz.col_sizes[c])

\* second loop: a dummy matrix for every null cell, row-major
RECURSIVE FillDummies(_, _, _)
FillDummies(s, k, sz) ==
  IF ~Ok(s) \/ k >= s.nbr * s.nbc THEN s
  ELSE LET r == k \div s.nbc
           c == k % s.nbc
       IN  FillDummies(
             IF NeedsDummy(s, r, c)
             THEN InstallDummy(DummyFor(s, sz, r, c), r, c)
             ELSE s,
             k + 1, sz)

\* (variant) column-major
NestIndex_colmajor(r, c, m, n) == c * m + r

\* position of block (r, c) in the array given to MatCreateNest
NestIndex(r, c, m, n) == r * n + c

psub_objects(s) ==
  [k \in 1..(s.nbr * s.nbc) |->
     s.sub_objects[CHOOSE p \in Grid(s.nbr, s.nbc) :
                     NestIndex(p[1], p[2], s.nbr, s.nbc) = k - 1].mat]

\* the tail of collect_sizes: the array of the blocks' handles, MatCreateNest
BuildNest(s, comm) ==
  IF ~Ok(s) THEN s
  ELSE MatCreateNest(s, comm, s.nbr, s.nbc, psub_objects(s))

\* (variant) the previous aggregate is not released
FillAndBuild_keep(s, sz) ==
  BuildNest(BaseClass_collect_sizes(FillDummies(s, 0, sz)), sz.comm)

\* the body of collect_sizes once the first loop has recorded sz
FillAndBuild(s, sz) ==
  BuildNest(destroy_matrix(BaseClass_collect_sizes(FillDummies(s, 0, sz))),
            sz.comm)

collect_sizes(s) ==
  IF ~Ok(s) THEN s
  ELSE FillAndBuild(s, ScanSizes(s, 0, NoSizes(s.nbr, s.nbc)))

\* ------------------------------------------------------------- reinit
\* (variant) the previous content is kept
reinit_noclear(s, n_block_rows, n_block_columns) ==
  [s EXCEPT
     !.sub_objects = [p \in Grid(n_block_rows, n_block_columns) |-> EmptyBlock],
     !.nbr = n_block_rows, !.nbc = n_block_columns,
     !.rbi = [r \in 1..n_block_rows |-> 0],
     !.cbi = [c \in 1..n_block_columns |-> 0]]

\* (variant) the cells are left without a block
reinit_nullcells(s, n_block_rows, n_block_columns) ==
  [clear(s) EXCEPT
     !.sub_objects = [p \in Grid(n_block_rows, n_block_columns) |-> NullPtr],
     !.nbr = n_block_rows, !.nbc = n_block_columns,
     !.rbi = [r \in 1..n_block_rows |-> 0],
     !.cbi = [c \in 1..n_block_columns |-> 0]]

\* reinit(n_block_rows, n_block_columns)
reinit(s, n_block_rows, n_block_columns) ==
  [clear(s) EXCEPT
     !.sub_objects = [p \in Grid(n_block_rows, n_block_columns) |-> EmptyBlock],
     !.nbr = n_block_rows, !.nbc = n_block_columns,
     !.rbi = [r \in 1..n_block_rows |-> 0],
     !.cbi = [c \in 1..n_block_columns |-> 0]]

\* What the uninitialized local sA may hold when MatNestGetSubMat has not
\* set it: a null pointer, the handle of some live matrix, a wild pointer.
JunkValues == {0, 1, -1}

\* MatNestGetSubMat(A, i, j, &sA); mats.push_back(sA): the status is not
\* looked at.  s.getfail is the number (row-major, from 1) of the call that
\* reports an error and leaves sA as it was, s.junk what sA then holds.
MatNestGetSubMat(s, A, i, j) ==
  IF s.getfail = i * s.mats[A].nc + j + 1
  THEN [Note(s, "MatNestGetSubMat failed", A) EXCEPT !.got = Append(@, s.junk)]
  ELSE [Note(s, "MatNestGetSubMat", A) EXCEPT
          !.got = Append(@, s.mats[A].subs[i * s.mats[A].nc + j + 1])]

\* (variant) the sub-matrices are fetched column by column
RECURSIVE GetSubMats_colmajor(_, _, _)
GetSubMats_colmajor(s, A, k) ==
  IF ~Ok(s) \/ k >= s.mats[A].nr * s.mats[A].nc THEN s
  ELSE GetSubMats_colmajor(
         MatNestGetSubMat(s, A, k % s.mats[A].nr, k \div s.mats[A].nr),
         A, k + 1)

RECURSIVE GetSubMats(_, _, _)
GetSubMats(s, A, k) ==
  IF ~Ok(s) \/ k >= s.mats[A].nr * s.mats[A].nc THEN s
  ELSE GetSubMats(MatNestGetSubMat(s, A, k \div s.mats[A].nc, k % s.mats[A].nc),
                  A, k + 1)

\* (variant) cell (i, j) wraps mats[j * nr + i]
RECURSIVE WrapSubMats_transposed(_, _)
WrapSubMats_transposed(s, k) ==
  IF ~Ok(s) \/ k >= s.nbr * s.nbc THEN s
  ELSE LET i == k \div s.nbc
           j == k % s.nbc
           h == s.got[j * s.nbr + i + 1]
       IN  WrapSubMats_transposed(
             IF h = 0
             THEN [s EXCEPT !.sub_objects[<<i, j>>] = NullPtr]
             ELSE IF h \in DOMAIN s.mats
             THEN NewBlockType(s, i, j, h)
             ELSE [s EXCEPT !.err = "Crash"],
             k + 1)

\* the loop that wraps mats[i * nc + j], or stores nullptr
RECURSIVE WrapSubMats(_, _)
WrapSubMats(s, k) ==
  IF ~Ok(s) \/ k >= s.nbr * s.nbc THEN s
  ELSE LET i == k \div s.nbc
           j == k % s.nbc
           h == s.got[i * s.nbc + j + 1]
       IN  WrapSubMats(IF h = 0
                       THEN [s EXCEPT !.sub_objects[<<i, j>>] = NullPtr]
                       ELSE IF h \in DOMAIN s.mats
                       THEN NewBlockType(s, i, j, h)
                       ELSE [s EXCEPT !.err = "Crash"],
                       k + 1)

\* PetscObjectTypeCompare(A, MATNEST, &isnest), checked
TypeCompare(s, A) ==
  [Issue(s, "PetscObjectTypeCompare", A) EXCEPT
     !.isnest = s.mats[A].type = "nest"]

\* if (isnest) { MatNestGetSize, checked; the MatNestGetSubMat loop }
\* else mats.push_back(A)
Decompose(s, A) ==
  IF ~Ok(s) THEN s
  ELSE IF s.isnest
       THEN GetSubMats(Issue(s, "MatNestGetSize", A), A, 0)
       ELSE [s EXCEPT !.got = <<A>>]

\* the block indices of nr and nc zeros, the nr x nc table of null pointers
ShapeGrid(s, nr, nc) ==
  IF ~Ok(s) THEN s
  ELSE [s EXCEPT !.rbi = [r \in 1..nr |-> 0],
                 !.cbi = [c \in 1..nc |-> 0],
                 !.sub_objects = [p \in Grid(nr, nc) |-> NullPtr],
                 !.nbr = nr, !.nbc = nc]

\* reinit(Mat A)
reinit_Mat(s, A) ==
  LET isnest == s.mats[A].type = "nest"
      nr == IF isnest THEN s.mats[A].nr ELSE 1
      nc == IF isnest THEN s.mats[A].nc ELSE 1
  IN  collect_sizes(
        WrapSubMats(ShapeGrid(Decompose(TypeCompare(clear(s), A), A), nr, nc),
                    0))

\* AssertNothrow(ierr == 0, ...): a failed release is reported and no
\* exception is raised; the handle is left as the failed call left it
AssertNothrow(s) ==
  IF Ok(s) THEN s
  ELSE [Note(s, "AssertNothrow", s.nest) EXCEPT !.err = "Reported"]

\* the destructor of the base class releases the blocks
BaseDestructor(s) ==
  [DeleteBlocks(s, 0)
     EXCEPT !.sub_objects = [p \in Grid(0, 0) |-> NullPtr],
            !.nbr = 0, !.nbc = 0, !.rbi = << >>, !.cbi = << >>]

\* (variant) the aggregate is left to the base class, which does not know it
Destructor_baseonly(s) == BaseDestructor(s)

\* ~BlockSparseMatrix, then the base class
Destructor(s) == BaseDestructor(AssertNothrow(destroy_matrix(s)))

\* --------------------------------------------------------------- queries
\* (variant) only the first block row is counted
n_nonzero_elements_row0(ms, so) ==
  Sum([p \in DOMAIN so |-> Block_n_nonzero_elements(ms, so[p])],
      {p \in DOMAIN so : p[1] = 0})

n_nonzero_elements(ms, so) ==
  Sum([p \in DOMAIN so |-> Block_n_nonzero_elements(ms, so[p])], DOMAIN so)

\* (variant) the range indices of the blocks of row 0 are returned
locally_owned_domain_indices_range(ms, so, ncols) ==
  [i \in 1..ncols |-> Block_locally_owned_range_indices(ms, so[<<0, i - 1>>])]

\* index_sets[i] = block(0, i).locally_owned_domain_indices()
locally_owned_domain_indices(ms, so, ncols) ==
  [i \in 1..ncols |-> Block_locally_owned_domain_indices(ms, so[<<0, i - 1>>])]

\* index_sets[i] = block(i, 0).locally_owned_range_indices()
locally_owned_range_indices(ms, so, nrows) ==
  [i \in 1..nrows |-> Block_locally_owned_range_indices(ms, so[<<i - 1, 0>>])]

PetscObjectComm(ms, h) == IF h = 0 THEN MPI_COMM_NULL ELSE ms[h].comm

\* get_mpi_communicator: the value of the static after the call, which is
\* what the returned reference reads
get_mpi_communicator(ms, nest, comm) ==
  LET pcomm == PetscObjectComm(ms, nest)
  IN  IF pcomm # MPI_COMM_NULL THEN pcomm ELSE comm

\* block(r, c).reinit(...): the wrapper releases what it held and builds a
\* new assembled matrix of the given sizes on MPI_COMM_WORLD
Block_reinit(s, r, c, lr, gr, lc, gc, nnz) ==
  LET old == s.sub_objects[<<r, c>>].mat
      released == Unref(s.mats, old)
      h == AllocHandle(released)
      new == [NewMat("aij", MPI_COMM_WORLD, lr, gr, lc, gc, nnz)
                EXCEPT !.prealloc = TRUE, !.setup = TRUE, !.asm = "end",
                       !.by = "block"]
  IN  [s EXCEPT
         !.mats = Put(released, h, new),
         !.sub_objects[<<r, c>>] = BlockOf(h)]

\* --------------------------------------------------------------- inputs
\* global size of the blocks of block row / block column i, and the share
\* of it that this process owns
Size(i) == 3 + i
Local(n) == n - 1
Nnz(r, c) == 5 + r + c

\* the shape that row r and column c call for
Fits(ms, b, r, c) == Block_m(ms, b) = Size(r) /\ Block_n(ms, b) = Size(c)

\* what a caller assigns to cell (r, c): a block of the shape its row and
\* column call for, or (a slip, if every other block fits) a block of the
\* transposed shape
BlockInputs(r, c) ==
  {[gr |-> Size(r), gc |-> Size(c), nnz |-> Nnz(r, c)]}
    \cup {[gr |-> Size(c), gc |-> Size(r), nnz |-> Nnz(r, c)] : x \in
            {q \in {<<r, c>>} :
               \A o \in DOMAIN sub_objects \ {q} :
                 sub_objects[o].mat # 0 => Fits(mats, sub_objects[o], o[1], o[2])}}

\* The arguments of reinit(rows, cols, bdsp, com): a sparsity grid bdsp of
\* R x C patterns, nrows row partitions and ncols column partitions.
\* rows[r] has Size(r) and cols[c] has Size(c) elements, and the pattern
\* (r, c) is Size(r) x Size(c), but for the pattern of cell number bad
\* (row-major; R * C: none), which has one column too many.
PatternInputs ==
  {x \in [R : 1..MaxDim, C : 1..MaxDim, nrows : 1..(MaxDim + 1),
          ncols : 1..(MaxDim + 1), bad : 0..MaxCells] :
     /\ x.R * x.C <= MaxCells
     /\ x.bad <= x.R * x.C
     /\ \/ x.nrows = x.R /\ x.ncols = x.C
        \/ x.nrows = x.R + 1 /\ x.ncols = x.C /\ x.bad = x.R * x.C
        \/ x.nrows = x.R /\ x.ncols = x.C + 1 /\ x.bad = x.R * x.C}

\* bdsp.block(r, c).n_rows() and n_cols()
Pattern_n_rows(x, r, c) == Size(r)
Pattern_n_cols(x, r, c) == IF r * x.C + c = x.bad THEN Size(c) + 1 ELSE Size(c)

\* clear(); sub_objects.reinit(...); the block indices from block row 0 and
\* block column 0 of bdsp
ShapePattern(s, x) ==
  [clear(s) EXCEPT
     !.sub_objects = [p \in Grid(x.R, x.C) |-> NullPtr],
     !.nbr = x.R, !.nbc = x.C,
     !.rbi = [r \in 1..x.R |-> Pattern_n_rows(x, r - 1, 0)],
     !.cbi = [c \in 1..x.C |-> Pattern_n_cols(x, 0, c - 1)]]

\* p->reinit(rows[r], cols[c], bdsp.block(r, c), com)
PatternBlock(s, r, c) ==
  LET t == Block_reinit(s, r, c, Local(Size(r)), Size(r), Local(Size(c)),
                        Size(c), Nnz(r, c))
  IN  Note(t, "BlockType::reinit", t.sub_objects[<<r, c>>].mat)

\* the loop over the cells: the two size checks of cell (r, c), then its
\* block (Assert: the checks of the debug build)
RECURSIVE FillPattern(_, _, _)
FillPattern(s, x, k) ==
  IF ~Ok(s) \/ k >= x.R * x.C THEN s
  ELSE LET r == k \div x.C
           c == k % x.C
       IN  IF \/ Size(r) # Pattern_n_rows(x, r, c)
              \/ Size(c) # Pattern_n_cols(x, r, c)
           THEN [s EXCEPT !.err = "InvalidSize"]
           ELSE FillPattern(PatternBlock(s, r, c), x, k + 1)

\* reinit(rows, cols, bdsp, com)
reinit_bdsp(s, x) ==
  IF x.nrows # x.R \/ x.ncols # x.C
  THEN [s EXCEPT !.err = "InvalidSize"]
  ELSE collect_sizes(FillPattern(ShapePattern(s, x), x, 0))

\* ------------------------------------------------------------- actions
\* The backend may report an error in any checked call.  An operation is
\* run with the f-th of its checked calls failing (f = 0: none fails); no
\* operation on an m x n grid makes more than CallsBound(m, n) of them.
CallsBound(m, n) == 12 * m * n + 4
Faulted(t, f) == f = 0 \/ (~Ok(t) /\ t.fail = 0)

Here(f) ==
  [mats |-> mats, sub_objects |-> sub_objects, nbr |-> nbr, nbc |-> nbc,
   rbi |-> row_block_indices, cbi |-> column_block_indices,
   nest |-> petsc_nest_matrix, log |-> << >>, calls |-> 0, fail |-> f,
   err |-> "none", dummy |-> 0, got |-> << >>, isnest |-> FALSE,
   getfail |-> 0, junk |-> 0]

Fresh(ms, f) ==
  [mats |-> ms, sub_objects |-> [p \in Grid(0, 0) |-> NullPtr], nbr |-> 0,
   nbc |-> 0, rbi |-> << >>, cbi |-> << >>, nest |-> 0, log |-> << >>,
   calls |-> 0, fail |-> f, err |-> "none", dummy |-> 0, got |-> << >>,
   isnest |-> FALSE, getfail |-> 0, junk |-> 0]

Commit(t, name, a, b) ==
  /\ replaced' = IF name = "block" /\ petsc_nest_matrix # 0 THEN replaced + 1
                 ELSE IF name \in {"block", "collect_sizes", "roundtrip"}
                      THEN replaced
                 ELSE 0
  /\ mats' = TrimFreed(t.mats)
  /\ sub_objects' = t.sub_objects
  /\ nbr' = t.nbr
  /\ nbc' = t.nbc
  /\ row_block_indices' = t.rbi
  /\ column_block_indices' = t.cbi
  /\ petsc_nest_matrix' = t.nest
  /\ log' = t.log
  /\ op' = [name |-> name, a |-> a, b |-> b, err |-> t.err, out |-> "",
            had |-> petsc_nest_matrix # 0]

\* the queries that read the grid and the aggregate handle
Queries ==
  {"n_nonzero_elements", "locally_owned_domain_indices",
   "locally_owned_range_indices", "operator_Mat"}

\* After an operation that failed the object is unusable: the caller only
\* destroys it.  A query of Queries leaves every variable but op and log
\* as it was, so what can follow it is what can follow the state it was
\* asked in: the model goes on from that state.
Usable == alive /\ op.err = "none" /\ op.name \notin Queries

Init ==
  /\ mats = UserMats
  /\ replaced = 0
  /\ alive = TRUE
  /\ sub_objects = [p \in Grid(0, 0) |-> NullPtr]
  /\ nbr = 0
  /\ nbc = 0
  /\ row_block_indices = << >>
  /\ column_block_indices = << >>
  /\ petsc_nest_matrix = 0
  /\ static_comm = PETSC_COMM_SELF
  /\ op = [name |-> "construct", a |-> 0, b |-> 0, err |-> "none", out |-> "",
           had |-> FALSE]
  /\ log = << >>

\* What the operations that start with clear() build does not depend on
\* what the object held before: all their arguments are drawn for an
\* object with an empty grid, and a few for every other.
Reinit ==
  /\ Usable
  /\ \E R \in 0..MaxDim, C \in 0..MaxDim :
       /\ (R = 0) <=> (C = 0)
       /\ R * C <= MaxCells
       /\ nbr = 0 \/ R * C <= 1
       /\ Commit(reinit(Here(0), R, C), "reinit", R, C)
  /\ UNCHANGED <<alive, static_comm>>

ReinitMatWith(A, f, t) == Faulted(t, f) /\ Commit(t, "reinit_Mat", A, f)

\* reinit(Mat) starts with clear(), after which nothing it does depends on
\* what the object held: backend failures are drawn for the calls on an
\* empty object, and cover those on any other.
ReinitMat ==
  /\ Usable
  /\ \E A \in InputMats :
       /\ nbr = 0 \/ A \in FewInputMats
       /\ \E f \in 0..(IF nbr = 0 /\ petsc_nest_matrix = 0
                       THEN CallsBound(mats[A].nr, mats[A].nc) ELSE 0) :
            ReinitMatWith(A, f, reinit_Mat(Here(f), A))
  /\ UNCHANGED <<alive, static_comm>>

\* reinit(Mat) on an empty object, the g-th MatNestGetSubMat reporting an
\* error that the code does not look at
ReinitMatIgnoredStatus ==
  /\ Usable
  /\ nbr = 0
  /\ petsc_nest_matrix = 0
  /\ \E A \in InputMats, junk \in JunkValues :
       /\ mats[A].type = "nest"
       /\ \E g \in 1..(mats[A].nr * mats[A].nc) :
            Commit(reinit_Mat([Here(0) EXCEPT !.getfail = g, !.junk = junk], A),
                   "reinit_Mat", A, 0)
  /\ UNCHANGED <<alive, static_comm>>

\* the aggregate is the composition of the blocks the grid holds now
InSync ==
  /\ petsc_nest_matrix # 0
  /\ \A p \in Grid(nbr, nbc) : sub_objects[p].mat # 0
  /\ mats[petsc_nest_matrix].subs =
       [k \in 1..(nbr * nbc) |-> sub_objects[<<(k - 1) \div nbc, (k - 1) % nbc>>].mat]

\* Before the first synchronization the cells are filled in row-major
\* order (cells may be skipped); a block of a synchronized grid may be
\* replaced, one between two synchronizations, MaxReplace in all.
AssignBlock ==
  /\ Usable
  /\ \E p \in Grid(nbr, nbc) :
       /\ \/ InSync /\ replaced < MaxReplace
          \/ /\ petsc_nest_matrix = 0
             /\ \A q \in Grid(nbr, nbc) :
                  q[1] * nbc + q[2] >= p[1] * nbc + p[2]
                     => sub_objects[q].mat = 0
       /\ \E x \in BlockInputs(p[1], p[2]) :
            Commit(Block_reinit(Here(0), p[1], p[2], Local(x.gr), x.gr,
                                Local(x.gc), x.gc, x.nnz),
                   "block", p[1], p[2])
  /\ UNCHANGED <<alive, static_comm>>

SynchronizeWith(f, t) == Faulted(t, f) /\ Commit(t, "collect_sizes", f, 0)

\* the backend calls of collect_sizes on the grid as it is: eleven for
\* every null cell, then MatDestroy and MatCreateNest
SyncCalls ==
  11 * Cardinality({p \in Grid(nbr, nbc) : ~sub_objects[p].ptr}) + 2

Synchronize ==
  /\ Usable
  /\ \E f \in 0..SyncCalls :
       SynchronizeWith(f, collect_sizes(Here(f)))
  /\ UNCHANGED <<alive, static_comm>>

CountsMatch(x) == x.nrows = x.R /\ x.ncols = x.C

\* arguments that pass all the size checks
Matching(x) == CountsMatch(x) /\ x.bad = x.R * x.C

\* Arguments with a mismatch are drawn for a new object and for one that
\* reinit(Mat) has just built, matching ones in every state.  (The backend
\* failures of its collect_sizes are those of Synchronize.)
ReinitPattern ==
  /\ Usable
  /\ \E x \in PatternInputs :
       /\ Matching(x) \/ op.name \in {"construct", "reinit_Mat"}
       /\ nbr = 0 \/ x.R * x.C = 1 \/ ~Matching(x)
       /\ Commit(reinit_bdsp(Here(0), x), "reinit_bdsp",
                 IF CountsMatch(x) THEN x.bad ELSE -1, 0)
  /\ UNCHANGED <<alive, static_comm>>

Clear ==
  /\ Usable
  /\ Commit(clear(Here(0)), "clear", 0, 0)
  /\ UNCHANGED <<alive, static_comm>>

GetComm ==
  /\ Usable
  /\ static_comm' = get_mpi_communicator(mats, petsc_nest_matrix, static_comm)
  /\ op' = [name |-> "get_mpi_communicator", a |-> 0, b |-> 0, err |-> "none",
            out |-> static_comm', had |-> petsc_nest_matrix # 0]
  /\ log' = << >>
  /\ UNCHANGED <<mats, replaced, alive, sub_objects, nbr, nbc, row_block_indices,
                 column_block_indices, petsc_nest_matrix>>

\* A query returns to the caller: op.out is what it returned.
Answer(name, out) ==
  /\ op' = [name |-> name, a |-> 0, b |-> 0, err |-> "none", out |-> out,
            had |-> petsc_nest_matrix # 0]
  /\ log' = << >>
  /\ UNCHANGED <<mats, replaced, alive, sub_objects, nbr, nbc,
                 row_block_indices, column_block_indices, petsc_nest_matrix,
                 static_comm>>

\* the queries read through block(r, c): the cells they read hold a block
NNonzeroElements ==
  /\ Usable
  /\ \A p \in Grid(nbr, nbc) : sub_objects[p].ptr
  /\ Answer("n_nonzero_elements", n_nonzero_elements(mats, sub_objects))

LocallyOwnedDomainIndices ==
  /\ Usable
  /\ \A i \in 0..(nbc - 1) : sub_objects[<<0, i>>].mat # 0
  /\ Answer("locally_owned_domain_indices",
            locally_owned_domain_indices(mats, sub_objects, nbc))

LocallyOwnedRangeIndices ==
  /\ Usable
  /\ \A i \in 0..(nbr - 1) : sub_objects[<<i, 0>>].mat # 0
  /\ Answer("locally_owned_range_indices",
            locally_owned_range_indices(mats, sub_objects, nbr))

\* (variant) the conversion hands the aggregate over to the caller
ConvertToMat_handover ==
  /\ Usable
  /\ op' = [name |-> "operator_Mat", a |-> 0, b |-> 0, err |-> "none",
            out |-> petsc_nest_matrix, had |-> petsc_nest_matrix # 0]
  /\ log' = << >>
  /\ petsc_nest_matrix' = 0
  /\ UNCHANGED <<mats, replaced, alive, sub_objects, nbr, nbc,
                 row_block_indices, column_block_indices, static_comm>>

\* operator const Mat &
ConvertToMat ==
  /\ Usable
  /\ Answer("operator_Mat", petsc_nest_matrix)

\* The release of the aggregate may fail (f = 1) where there is one.  The
\* error of an operation that failed before stays on record.
Destroyed(t, f) ==
  Commit([t EXCEPT !.err = IF Ok(t) THEN op.err ELSE @], "destructor", f, 0)

Destroy ==
  /\ alive
  /\ op.name \notin Queries
  /\ alive' = FALSE
  /\ \E f \in 0..(IF Usable /\ petsc_nest_matrix # 0 THEN 1 ELSE 0) :
       Destroyed(Destructor(Here(f)), f)
  /\ UNCHANGED static_comm

Construct ==
  /\ ~alive
  /\ op.err = "none"
  /\ alive' = TRUE
  /\ Commit(Fresh(mats, 0), "construct", 0, 0)
  /\ UNCHANGED static_comm

\* b: the second object, built; this object's destructor then runs on the
\* resources as b left them
HandOver(b) ==
  Commit([b EXCEPT !.mats = Destructor([Here(0) EXCEPT !.mats = b.mats]).mats],
         "roundtrip", petsc_nest_matrix, 0)

\* A second object is built from the aggregate of a synchronized object,
\* reinit(Mat) on petsc_matrix(); this object is then destroyed and the
\* second one is the object the model goes on with.  (The backend failures of reinit(Mat)
\* are those of ReinitMat.)
RoundTrip ==
  /\ Usable
  /\ InSync
  /\ HandOver(reinit_Mat(Fresh(mats, 0), petsc_nest_matrix))
  /\ UNCHANGED <<alive, static_comm>>

Next ==
  \/ Reinit
  \/ ReinitMat
  \/ ReinitMatIgnoredStatus
  \/ ReinitPattern
  \/ AssignBlock
  \/ Synchronize
  \/ Clear
  \/ GetComm
  \/ NNonzeroElements
  \/ LocallyOwnedDomainIndices
  \/ LocallyOwnedRangeIndices
  \/ ConvertToMat
  \/ Destroy
  \/ Construct
  \/ RoundTrip

Spec == Init /\ [][Next]_vars

\* ============================================================ properties
Cells == Grid(nbr, nbc)

\* cell p holds a block that wraps a native resource that exists
Concrete(p) ==
  /\ sub_objects[p].ptr
  /\ sub_objects[p].mat # 0
  /\ Live(mats, sub_objects[p].mat)

\* the last operation ran collect_sizes to its end
SyncDone ==
  /\ alive
  /\ op.name \in {"collect_sizes", "reinit_Mat", "reinit_bdsp", "roundtrip"}
  /\ op.err = "none"

Logged(call, h) == \E i \in DOMAIN log : log[i] = [call |-> call, h |-> h]

\* the block of cell p is a dummy matrix that the last operation created
SynthesizedNow(p) ==
  sub_objects[p].mat # 0 /\ Logged("MatCreate", sub_objects[p].mat)

SameRowSizes(p, q) ==
  /\ Block_m(mats, sub_objects[p]) = Block_m(mats, sub_objects[q])
  /\ Block_local_size(mats, sub_objects[p]) = Block_local_size(mats, sub_objects[q])

SameColSizes(p, q) ==
  /\ Block_n(mats, sub_objects[p]) = Block_n(mats, sub_objects[q])
  /\ Block_local_domain_size(mats, sub_objects[p])
       = Block_local_domain_size(mats, sub_objects[q])

\* cell p held a real block when the last synchronization started
RealBlock(p) == Concrete(p) /\ ~SynthesizedNow(p)

\* the real blocks of a row have one row size and those of a column one
\* column size: what step 1 of the synchronization expects of its callers
Homogeneous ==
  \A p, q \in Cells :
    (RealBlock(p) /\ RealBlock(q)) =>
      /\ p[1] = q[1] => SameRowSizes(p, q)
      /\ p[2] = q[2] => SameColSizes(p, q)

\* the grid held a real block and at least one null cell when the last
\* synchronization started
FilledGaps ==
  /\ SyncDone
  /\ \E p \in Cells : SynthesizedNow(p)
  /\ \E p \in Cells : RealBlock(p)
  /\ Homogeneous

BuiltNests ==
  {h \in DOMAIN mats : mats[h].refs > 0 /\ mats[h].by = "MatCreateNest"}

C2_AtMostOne == BuiltNests \subseteq {petsc_nest_matrix}

\* a step that builds an aggregate released the previous one (nullptr when
\* there was none) in the call right before MatCreateNest; a step that
\* builds none leaves an aggregate that it keeps as it was
C2_DestroyThenBuild ==
  /\ \A j \in DOMAIN log' :
       log'[j].call = "MatCreateNest" =>
         /\ j > 1
         /\ log'[j - 1] =
              [call |-> "MatDestroy",
               h |-> IF op'.name = "collect_sizes" THEN petsc_nest_matrix ELSE 0]
         /\ \A i \in DOMAIN log' : log'[i].call = "MatCreateNest" => i = j
  /\ (/\ petsc_nest_matrix # 0
      /\ petsc_nest_matrix' = petsc_nest_matrix
      /\ \A j \in DOMAIN log' : log'[j].call # "MatCreateNest")
       => mats'[petsc_nest_matrix] = mats[petsc_nest_matrix]

\* C2: the object holds at most one aggregate: none initially, the
\* previous one is destroyed before the new one is built, an old and a new
\* aggregate never coexist, and an aggregate is never modified in place.
C2_SingleAggregate ==
  /\ petsc_nest_matrix = 0
  /\ []C2_AtMostOne
  /\ [][C2_DestroyThenBuild]_vars

\* a synchronization that replaced an aggregate by a new one
C2_Witness ==
  /\ SyncDone
  /\ op.name = "collect_sizes"
  /\ \E j \in DOMAIN log :
       /\ j > 1
       /\ log[j].call = "MatCreateNest"
       /\ log[j - 1].call = "MatDestroy"
       /\ log[j - 1].h # 0
  /\ petsc_nest_matrix # 0

\* C3: after a successful synchronize() the aggregate is a nest of the
\* grid's shape whose sub-handle r * C + c is the native resource that
\* cell (r, c) holds: a reference to it, not a copy.
C3_AggregateIsGrid ==
  SyncDone =>
    /\ Live(mats, petsc_nest_matrix)
    /\ mats[petsc_nest_matrix].type = "nest"
    /\ mats[petsc_nest_matrix].nr = nbr
    /\ mats[petsc_nest_matrix].nc = nbc
    /\ Len(mats[petsc_nest_matrix].subs) = nbr * nbc
    /\ \A p \in Cells :
         /\ mats[petsc_nest_matrix].subs[p[1] * nbc + p[2] + 1] = sub_objects[p].mat
         /\ sub_objects[p].mat # 0 => mats[sub_objects[p].mat].refs >= 2

C3_Witness ==
  /\ SyncDone
  /\ nbr = 2
  /\ nbc = 2
  /\ \A p \in Cells : Concrete(p)
  /\ sub_objects[<<0, 1>>].mat # sub_objects[<<1, 0>>].mat


C4_Step ==
  /\ op'.name \in {"clear", "reinit"} =>
       /\ op'.err = "none"
       /\ petsc_nest_matrix' = 0
       /\ petsc_nest_matrix # 0 => ~Live(mats', petsc_nest_matrix)
       /\ \A h \in DOMAIN mats' :
            mats'[h].by = "MatCreateNest" => mats'[h].refs <= 0
  /\ (petsc_nest_matrix = 0 /\ petsc_nest_matrix' # 0) =>
       op'.name \in {"collect_sizes", "reinit_Mat", "reinit_bdsp"}

C5_ProcessGroup ==
  op.name = "get_mpi_communicator" =>
    op.out = IF petsc_nest_matrix # 0 THEN mats[petsc_nest_matrix].comm
             ELSE PETSC_COMM_SELF


\* cell p holds a block of gr x gc with nnz nonzeros
IsBlock(p, gr, gc, nnz) ==
  /\ Concrete(p)
  /\ Block_m(mats, sub_objects[p]) = gr
  /\ Block_n(mats, sub_objects[p]) = gc
  /\ Block_n_nonzero_elements(mats, sub_objects[p]) = nnz

\* cell p held no native resource when the last synchronization started
WasUnassigned(p) == sub_objects[p].mat = 0 \/ SynthesizedNow(p)

\* 2 x 2, (0,0) is 3 x 3 with 5 nonzeros, (1,1) is 4 x 4 with 7 nonzeros,
\* (0,1) and (1,0) were unassigned, and synchronize() has returned
C6_Scenario ==
  /\ SyncDone
  /\ nbr = 2
  /\ nbc = 2
  /\ IsBlock(<<0, 0>>, 3, 3, 5)
  /\ IsBlock(<<1, 1>>, 4, 4, 7)
  /\ WasUnassigned(<<0, 1>>)
  /\ WasUnassigned(<<1, 0>>)

C6_Result ==
  /\ IsBlock(<<0, 1>>, 3, 4, 0)
  /\ IsBlock(<<1, 0>>, 4, 3, 0)
  /\ n_nonzero_elements(mats, sub_objects) = 12
  /\ SeqSum(row_block_indices) = 7
  /\ SeqSum(column_block_indices) = 7

\* C6 (as stated): in the 2 x 2 scenario, whether (0,1) and (1,0) were left
\* untouched after reinit(2, 2) or are null sub-resources of a decomposed
\* aggregate, synchronize() makes (0,1) a 3 x 4 and (1,0) a 4 x 3 block
\* with 0 nonzeros, the nonzero count is 12 and both global counts are 7.
C6_AsStated == C6_Scenario => C6_Result

\* The result is reached when cells (0,1) and (1,0) are null sub-resources
\* of the aggregate that reinit(Mat) decomposes.
C6_Decomposed == (C6_Scenario /\ op.name = "reinit_Mat") => C6_Result

C6_Witness ==
  /\ C6_Scenario
  /\ op.name = "reinit_Mat"
  /\ SynthesizedNow(<<0, 1>>)
  /\ SynthesizedNow(<<1, 0>>)

\* every cell holds a concrete block, sizes agree along rows and columns,
\* the indices are those sizes and the aggregate is the nest of the grid
Consistent ==
  /\ alive
  /\ nbr >= 1
  /\ nbc >= 1
  /\ \A p \in Cells : Concrete(p)
  /\ \A p, q \in Cells :
       /\ p[1] = q[1] => SameRowSizes(p, q)
       /\ p[2] = q[2] => SameColSizes(p, q)
  /\ \A p \in Cells :
       /\ row_block_indices[p[1] + 1] = Block_m(mats, sub_objects[p])
       /\ column_block_indices[p[2] + 1] = Block_n(mats, sub_objects[p])
  /\ Live(mats, petsc_nest_matrix)
  /\ mats[petsc_nest_matrix].nr = nbr
  /\ mats[petsc_nest_matrix].nc = nbc
  /\ mats[petsc_nest_matrix].subs =
       [k \in 1..(nbr * nbc) |-> sub_objects[<<(k - 1) \div nbc, (k - 1) % nbc>>].mat]

\* every cell was assigned a block by the user, of the size and the
\* nonzero count of its position, and synchronize() has returned
AllAssigned ==
  /\ SyncDone
  /\ op.name = "collect_sizes"
  /\ nbr >= 1
  /\ nbc >= 1
  /\ \A p \in Cells :
       /\ Concrete(p)
       /\ mats[sub_objects[p].mat].by = "block"
       /\ IsBlock(p, Size(p[1]), Size(p[2]), Nnz(p[1], p[2]))

\* sums of Size and Nnz over an R x C grid, in closed form
TotalSize(R) == 3 * R + (R * (R - 1)) \div 2
TotalNnz(R, C) == 5 * R * C + C * ((R * (R - 1)) \div 2) + R * ((C * (C - 1)) \div 2)

\* C7: with every cell assigned a real block of shapes that agree per row
\* and column, synchronize() leaves the object Consistent, the nonzero
\* count is the sum of the blocks' counts and the row and column index
\* totals are the sums of the per-row and per-column global sizes.
C7_FullGrid ==
  AllAssigned =>
    /\ Consistent
    /\ n_nonzero_elements(mats, sub_objects) = TotalNnz(nbr, nbc)
    /\ SeqSum(row_block_indices) = TotalSize(nbr)
    /\ SeqSum(column_block_indices) = TotalSize(nbc)

C7_Witness ==
  /\ AllAssigned
  /\ nbr = 2
  /\ nbc = 2
  /\ ~op.had


\* a second object is built by reinit(Mat) on the aggregate of a Consistent
\* object: same grid shape, same global sizes cell by cell, same count
C8_Step ==
  (Consistent /\ op'.name = "roundtrip") =>
    /\ op'.err = "none"
    /\ nbr' = nbr
    /\ nbc' = nbc
    /\ \A p \in Cells :
         /\ Block_m(mats', sub_objects'[p]) = Block_m(mats, sub_objects[p])
         /\ Block_n(mats', sub_objects'[p]) = Block_n(mats, sub_objects[p])
    /\ n_nonzero_elements(mats', sub_objects') = n_nonzero_elements(mats, sub_objects)

\* C8: for a Consistent R x C object, placeholders included, a fresh
\* object built by reinit(Mat) on its aggregate and synchronized again has
\* the same R x C shape, the same global row and column sizes in every
\* cell and the same nonzero count.
C8_RoundTrip == [][C8_Step]_vars

\* the second object of a round trip over a 2 x 2 grid with placeholders
C8_Witness ==
  /\ op.name = "roundtrip"
  /\ op.err = "none"
  /\ Consistent
  /\ nbr = 2
  /\ nbc = 2
  /\ \E p \in Cells : mats[sub_objects[p].mat].by = "create_dummy_mat"
  /\ \A i \in DOMAIN log : log[i].call # "MatCreate"
  /\ Block_m(mats, sub_objects[<<0, 1>>]) # Block_m(mats, sub_objects[<<1, 0>>])

\* synchronize() on a Consistent object
C9_Step ==
  (Consistent /\ op'.name = "collect_sizes" /\ op'.err = "none") =>
    /\ Live(mats', petsc_nest_matrix')
    /\ mats'[petsc_nest_matrix'].nr = mats[petsc_nest_matrix].nr
    /\ mats'[petsc_nest_matrix'].nc = mats[petsc_nest_matrix].nc
    /\ mats'[petsc_nest_matrix'].subs = mats[petsc_nest_matrix].subs
    /\ n_nonzero_elements(mats', sub_objects') = n_nonzero_elements(mats, sub_objects)
    /\ \A i \in DOMAIN log' : log'[i].call # "MatCreate"
    /\ sub_objects' = sub_objects
    /\ \A p \in Cells : mats'[sub_objects[p].mat] = mats[sub_objects[p].mat]

\* C9: synchronize() on an already Consistent grid yields an aggregate of
\* the same shape, sub-handles and nonzero count, synthesizes no
\* placeholder and leaves every cell with the native resource it held.
C9_Idempotent == [][C9_Step]_vars

\* a second synchronize() has returned, none of the blocks was replaced
\* since the aggregate before it was built
C9_Witness ==
  /\ op.name = "collect_sizes"
  /\ op.err = "none"
  /\ op.had
  /\ replaced = 0
  /\ Consistent
  /\ nbr * nbc >= 2
  /\ \A i \in DOMAIN log : log[i].call # "MatCreate"

\* C10: synchronize() on the 0 x 0 grid that reinit(0, 0) leaves fails
\* with a PreconditionViolation and leaves no aggregate.
C10_EmptyGridRejected ==
  (op.name = "collect_sizes" /\ nbr = 0 /\ nbc = 0) =>
    /\ op.err = "PreconditionViolation"
    /\ petsc_nest_matrix = 0


\* collect_sizes has run, with no failure drawn for a backend call, on a
\* grid of at least one cell none of which held a real block
NoRealBlockSync ==
  /\ alive
  /\ nbr >= 1
  /\ nbc >= 1
  /\ \/ op.name = "collect_sizes" /\ op.a = 0
     \/ /\ op.name = "reinit_Mat"
        /\ op.b = 0
        /\ \A k \in DOMAIN mats[op.a].subs : mats[op.a].subs[k] = 0
  /\ \A p \in Cells : ~RealBlock(p)

\* C11: synchronize() on a grid of R, C >= 1 cells without any real block
\* is reported as a PreconditionViolation: no placeholder is synthesized
\* and no aggregate is built.
C11_NoRealBlockRejected ==
  NoRealBlockSync =>
    /\ op.err = "PreconditionViolation"
    /\ \A i \in DOMAIN log : log[i].call \notin {"MatCreate", "MatCreateNest"}
    /\ petsc_nest_matrix = 0


\* op.a is the handle reinit(Mat) was given
StatusIgnored == Logged("MatNestGetSubMat failed", op.a)

\* reinit(Mat) has returned and no backend call has reported an error
ReinitMatDone ==
  alive /\ op.name = "reinit_Mat" /\ op.err = "none" /\ ~StatusIgnored

\* the native resource h is as its owner built it, but for the number of
\* references to it
Untouched(h) == mats[h] = [UserMats[h] EXCEPT !.refs = mats[h].refs]

\* cell (i, j) holds the sub-resource sub of the decomposed handle, or a
\* dummy matrix made in this call where sub is null
Adopted(i, j, sub) ==
  IF sub # 0
  THEN /\ sub_objects[<<i, j>>] = BlockOf(sub)
       /\ Untouched(sub)
       /\ ~SynthesizedNow(<<i, j>>)
  ELSE /\ SynthesizedNow(<<i, j>>)
       /\ mats[sub_objects[<<i, j>>].mat].by = "create_dummy_mat"

\* C12: after a successful reinit(Mat A): for a nest of nr x nc the grid
\* is nr x nc and cell (i, j) wraps the unchanged non-null sub-matrix
\* (i, j); for another matrix the grid is 1 x 1 and wraps A; cells of null
\* sub-matrices hold placeholders; the object is Consistent and its
\* aggregate was built in this call.
C12_Adoption ==
  ReinitMatDone =>
    /\ IF mats[op.a].type = "nest"
       THEN /\ nbr = mats[op.a].nr
            /\ nbc = mats[op.a].nc
            /\ \A p \in Cells :
                 Adopted(p[1], p[2], mats[op.a].subs[p[1] * mats[op.a].nc + p[2] + 1])
       ELSE /\ nbr = 1
            /\ nbc = 1
            /\ Adopted(0, 0, op.a)
    /\ Consistent
    /\ Logged("MatCreateNest", petsc_nest_matrix)
    /\ petsc_nest_matrix # op.a

C12_Witness ==
  /\ ReinitMatDone
  /\ mats[op.a].type = "nest"
  /\ nbr = 2
  /\ nbc = 2
  /\ \E p \in Cells : SynthesizedNow(p)
  /\ \E p \in Cells : RealBlock(p)
  /\ sub_objects[<<0, 1>>].mat # sub_objects[<<1, 0>>].mat


\* reinit(rows, cols, bdsp, com) has raised InvalidSize
InvalidSizeRaised == alive /\ op.name = "reinit_bdsp" /\ op.err = "InvalidSize"

\* C13: reinit(rows, cols, bdsp, com) reports every size mismatch as
\* InvalidSize before any backend call: no block resource has been created
\* and the previous state has not been destroyed, whichever cell the
\* mismatch is in.
C13_EagerSizeChecks ==
  InvalidSizeRaised =>
    /\ \A i \in DOMAIN log : log[i].call # "BlockType::reinit"
    /\ \A p \in Cells : sub_objects[p].mat # 0 => mats[sub_objects[p].mat].by # "block"
    /\ op.had => petsc_nest_matrix # 0


\* reinit(Mat) has run and a backend call of it has reported an error
ReinitMatFailure ==
  /\ alive
  /\ op.name = "reinit_Mat"
  /\ op.b > 0 \/ StatusIgnored

\* C14: a backend call of a structural operation that reports a failure
\* aborts the operation with a BackendError; in reinit(Mat) the failed
\* call (PetscObjectTypeCompare, MatNestGetSize, any MatNestGetSubMat) is
\* the last call made: nothing is wrapped and nothing is synchronized.
C14_NoStatusIgnored ==
  /\ ReinitMatFailure =>
       /\ op.err = "BackendError"
       /\ StatusIgnored => log[Len(log)].call = "MatNestGetSubMat failed"
  /\ (alive /\ op.name = "collect_sizes" /\ op.a > 0) => op.err = "BackendError"


\* the owners of the native resource h: the caller who built it, the
\* object for its aggregate, the grid cells that wrap it, and the nests
\* that exist and have it as a sub-matrix
Owners(h) ==
  (IF h \in DOMAIN UserMats THEN 1 ELSE 0)
  + (IF alive /\ h = petsc_nest_matrix THEN 1 ELSE 0)
  + Cardinality({p \in Cells : sub_objects[p].mat = h})
  + Sum([n \in DOMAIN mats |->
           IF mats[n].refs > 0
           THEN Cardinality({k \in DOMAIN mats[n].subs : mats[n].subs[k] = h})
           ELSE 0],
        DOMAIN mats)

\* no backend call has reported an error since the object was built, or
\* the last operation stopped at a MatCreateNest that did
Accounted ==
  \/ op.err = "none"
  \/ alive /\ log # << >> /\ log[Len(log)].call = "MatCreateNest"

Structure ==
  <<petsc_nest_matrix, nbr, nbc, row_block_indices, column_block_indices>>

\* what the aggregate is composed of
AggregateSubs == IF petsc_nest_matrix = 0 THEN << >>
                 ELSE mats[petsc_nest_matrix].subs

C16_QueryStep ==
  op'.name \in Queries \cup {"get_mpi_communicator"}
    => /\ UNCHANGED Structure
       /\ UNCHANGED <<sub_objects, mats>>

C16_BlockStep ==
  op'.name = "block" /\ op'.err = "none" /\ alive'
    => /\ UNCHANGED Structure
       /\ AggregateSubs' = AggregateSubs
       /\ \A p \in Cells : p # <<op'.a, op'.b>> => sub_objects'[p] = sub_objects[p]
       /\ petsc_nest_matrix # 0 =>
            /\ mats'[petsc_nest_matrix] = mats[petsc_nest_matrix]
            /\ AggregateSubs'[op'.a * nbc + op'.b + 1] = sub_objects[<<op'.a, op'.b>>].mat
            /\ AggregateSubs'[op'.a * nbc + op'.b + 1] # sub_objects'[<<op'.a, op'.b>>].mat

\* C16: a block replacement and every read-only query leave the aggregate
\* handle, the shape of the grid and both block indices unchanged (a query
\* leaves the blocks unchanged too); after a replacement the aggregate is
\* still composed of the blocks of the last synchronization, the replaced
\* one included, and not of the new block.
C16_NoImplicitRebuild == [][C16_QueryStep /\ C16_BlockStep]_vars

\* a query has been answered on an object whose aggregate is stale
C16_Witness ==
  /\ op.name \in Queries
  /\ petsc_nest_matrix # 0
  /\ replaced > 0
  /\ ~InSync


\* the names of the backend calls of a log, in the order they were issued
Calls(lg) == [i \in DOMAIN lg |-> lg[i].call]

\* The resources as another process of the group holds them: the same
\* objects with the same global sizes, and the rest of every dimension as
\* its local share.
PeerMats(ms) ==
  [h \in DOMAIN ms |->
     [ms[h] EXCEPT !.lr = ms[h].gr - ms[h].lr, !.lc = ms[h].gc - ms[h].lc]]

\* the object of the other process before the operation
PeerHere == [Here(0) EXCEPT !.mats = PeerMats(mats)]

\* the backend calls that make and install one placeholder
DummyCalls ==
  <<"MatCreate", "MatSetSizes", "MatSetType", "MatSeqAIJSetPreallocation",
    "MatMPIAIJSetPreallocation", "MatSetUp", "MatSetOption",
    "MatAssemblyBegin", "MatAssemblyEnd", "PetscObjectReference", "MatDestroy">>

RECURSIVE Repeat(_, _)
Repeat(s, k) == IF k = 0 THEN << >> ELSE s \o Repeat(s, k - 1)

\* k placeholders, the release of the old aggregate, the new aggregate
SyncSequence(k) == Repeat(DummyCalls, k) \o <<"MatDestroy", "MatCreateNest">>

\* the cells that reinit(A) leaves to the placeholders
NullSubs(A) ==
  IF mats[A].type = "nest"
  THEN {p \in Grid(mats[A].nr, mats[A].nc) :
          mats[A].subs[p[1] * mats[A].nc + p[2] + 1] = 0}
  ELSE {}

\* where in the log the resource h was created
CreatedAt(lg, h) ==
  CHOOSE i \in DOMAIN lg : lg[i].call = "MatCreate" /\ lg[i].h = h

Last(s, n) == SubSeq(s, Len(s) - n + 1, Len(s))

\* mine, peer: the object after reinit(A) on this process and on the other
SameCalls(A, mine, peer) ==
  /\ Calls(mine.log) = Calls(peer.log)
  /\ Ok(mine) =>
       /\ Last(Calls(mine.log), Len(SyncSequence(Cardinality(NullSubs(A)))))
            = SyncSequence(Cardinality(NullSubs(A)))
       /\ \A p, q \in NullSubs(A) :
            p[1] * mine.nbc + p[2] < q[1] * mine.nbc + q[2]
              => CreatedAt(mine.log, mine.sub_objects[p].mat)
                   < CreatedAt(mine.log, mine.sub_objects[q].mat)

\* C17: in every state in which the object can be used, the sequence of
\* backend calls that a synchronization and a reinit(A) issue from it (A
\* any input on an empty object, one of FewInputMats on another) is
\* the one a process with other local sizes issues on the same grid; the
\* calls of reinit(A) end with the calls for one placeholder per
\* unassigned cell, in row-major order of the cells, then the release of
\* the old aggregate, then the build of the new one.
C17_SameCollectiveCalls ==
  Usable =>
    /\ Calls(collect_sizes(Here(0)).log) = Calls(collect_sizes(PeerHere).log)
    /\ Calls(collect_sizes(Here(0)).log)
         = SyncSequence(Cardinality({p \in Cells : ~sub_objects[p].ptr}))
    /\ \A A \in InputMats :
         nbr = 0 \/ A \in FewInputMats =>
           SameCalls(A, reinit_Mat(Here(0), A), reinit_Mat(PeerHere, A))

\* reinit(A) has made two placeholders and replaced an aggregate
C17_Witness ==
  /\ op.name = "reinit_Mat"
  /\ op.err = "none"
  /\ op.had
  /\ Cardinality({i \in DOMAIN log : log[i].call = "MatCreate"}) = 2
  /\ Last(Calls(log), 2 * Len(DummyCalls) + 2) = SyncSequence(2)

\* the destructor ran to its end: the object is gone and its grid is empty
TornDown ==
  /\ ~alive'
  /\ nbr' = 0
  /\ nbc' = 0
  /\ sub_objects' = [p \in Grid(0, 0) |-> NullPtr]

\* the aggregate was released: one reference less, the handle reset
AggregateReleased ==
  /\ petsc_nest_matrix' = 0
  /\ [call |-> "MatDestroy", h |-> petsc_nest_matrix] \in {log'[i] : i \in DOMAIN log'}
  /\ \/ petsc_nest_matrix \notin DOMAIN mats'
     \/ mats'[petsc_nest_matrix].refs = mats[petsc_nest_matrix].refs - 1
     \/ mats'[petsc_nest_matrix] = FreedMat

C18_Step ==
  op'.name = "destructor" /\ alive =>
    /\ TornDown
    /\ op'.err \in {op.err, "Reported"}
    /\ petsc_nest_matrix # 0 /\ op'.a = 0 => AggregateReleased
    /\ petsc_nest_matrix = 0 =>
         /\ petsc_nest_matrix' = 0
         /\ op'.err = op.err
         /\ log' = <<[call |-> "MatDestroy", h |-> 0]>>
    /\ op'.a = 1 =>
         /\ petsc_nest_matrix # 0
         /\ op'.err = "Reported"
         /\ log'[Len(log')] = [call |-> "AssertNothrow", h |-> petsc_nest_matrix]

IsEmptyBlock(ms, b) ==
  /\ b.ptr
  /\ b.mat = 0
  /\ Block_m(ms, b) = 0
  /\ Block_n(ms, b) = 0
  /\ Block_local_size(ms, b) = 0
  /\ Block_local_domain_size(ms, b) = 0
  /\ Block_n_nonzero_elements(ms, b) = 0

\* the resource h that a cell wrapped before the step is in no cell after
\* it, and the cell's reference on it is given up
GoneFromGrid(h) ==
  /\ \A p \in DOMAIN sub_objects' : sub_objects'[p].mat # h
  /\ \/ h \notin DOMAIN mats'
     \/ mats'[h] = FreedMat
     \/ mats'[h].refs < mats[h].refs

C19_Step ==
  op'.name = "reinit" =>
    /\ nbr' = op'.a
    /\ nbc' = op'.b
    /\ DOMAIN sub_objects' = Grid(op'.a, op'.b)
    /\ Cardinality(DOMAIN sub_objects') = op'.a * op'.b
    /\ \A p \in DOMAIN sub_objects' : IsEmptyBlock(mats', sub_objects'[p])
    /\ \A p \in Cells : sub_objects[p].mat # 0 => GoneFromGrid(sub_objects[p].mat)
    /\ row_block_indices' = [r \in 1..op'.a |-> 0]
    /\ column_block_indices' = [c \in 1..op'.b |-> 0]

\* C19: after reinit(n_rows, n_cols) the grid has n_rows x n_cols cells,
\* every cell holds an empty block whose size queries are all 0, no block
\* from before the call is left in the grid, and the row and the column
\* block index have n_rows and n_cols entries, all 0.
C19_ReinitEmptyGrid == [][C19_Step]_vars

\* reinit(1, 1) on an object whose grid held blocks and an aggregate
C19_Witness ==
  /\ op.name = "reinit"
  /\ op.err = "none"
  /\ op.had
  /\ op.a = 1
  /\ op.b = 1
  /\ sub_objects[<<0, 0>>] = EmptyBlock
  /\ row_block_indices = <<0>>
  /\ column_block_indices = <<0>>


\* what this process owns of the columns, and of the rows, of the block in
\* cell p
OwnedCols(p) ==
  [size |-> Block_n(mats, sub_objects[p]),
   idx |-> {k \in 0..(Block_n(mats, sub_objects[p]) - 1) :
              k >= Block_n(mats, sub_objects[p])
                     - Block_local_domain_size(mats, sub_objects[p])}]
OwnedRows(p) ==
  [size |-> Block_m(mats, sub_objects[p]),
   idx |-> {k \in 0..(Block_m(mats, sub_objects[p]) - 1) :
              k >= Block_m(mats, sub_objects[p])
                     - Block_local_size(mats, sub_objects[p])}]

\* C20: on a Consistent R x C object locally_owned_domain_indices()
\* returns C index sets, the i-th the owned columns of block(0, i), and
\* locally_owned_range_indices() returns R index sets, the i-th the owned
\* rows of block(i, 0).
C20_OwnedIndexSets ==
  Consistent =>
    /\ op.name = "locally_owned_domain_indices" =>
         /\ Len(op.out) = nbc
         /\ \A i \in 0..(nbc - 1) : op.out[i + 1] = OwnedCols(<<0, i>>)
    /\ op.name = "locally_owned_range_indices" =>
         /\ Len(op.out) = nbr
         /\ \A i \in 0..(nbr - 1) : op.out[i + 1] = OwnedRows(<<i, 0>>)

\* the domain index sets of a Consistent 2 x 2 object have been returned;
\* the second block of row 0 has more columns than rows
C20_Witness ==
  /\ Consistent
  /\ op.name = "locally_owned_domain_indices"
  /\ nbr = 2
  /\ nbc = 2
  /\ Len(op.out) = 2
  /\ Block_n(mats, sub_objects[<<0, 1>>]) > Block_m(mats, sub_objects[<<0, 1>>])


\* the cells of row r, and of column c, that hold a block
HeldInRow(r) == {c \in 0..(nbc - 1) : sub_objects[<<r, c>>].ptr}
HeldInCol(c) == {r \in 0..(nbr - 1) : sub_objects[<<r, c>>].ptr}

Highest(S) == CHOOSE x \in S : \A y \in S : y <= x

\* what the first loop of collect_sizes records on the grid as it is
Scanned(sz) ==
  /\ \A r \in 0..(nbr - 1) : HeldInRow(r) # {} =>
       LET b == sub_objects[<<r, Highest(HeldInRow(r))>>]
       IN  /\ sz.row_sizes[r] = Block_m(mats, b)
           /\ sz.row_local_sizes[r] = Block_local_size(mats, b)
  /\ \A c \in 0..(nbc - 1) : HeldInCol(c) # {} =>
       LET b == sub_objects[<<Highest(HeldInCol(c)), c>>]
       IN  /\ sz.col_sizes[c] = Block_n(mats, b)
           /\ sz.col_local_sizes[c] = Block_local_domain_size(mats, b)

\* cell p held a block when the last synchronization started
HeldBefore(p) == sub_objects[p].ptr /\ ~SynthesizedNow(p)

BeforeInRow(r) == {c \in 0..(nbc - 1) : HeldBefore(<<r, c>>)}
BeforeInCol(c) == {r \in 0..(nbr - 1) : HeldBefore(<<r, c>>)}

\* the placeholder in cell p has the row sizes of the last block of its
\* row and the column sizes of the last block of its column
SizedByLast(p) ==
  /\ BeforeInRow(p[1]) # {} =>
       SameRowSizes(p, <<p[1], Highest(BeforeInRow(p[1]))>>)
  /\ BeforeInCol(p[2]) # {} =>
       SameColSizes(p, <<Highest(BeforeInCol(p[2])), p[2]>>)

\* two blocks of one row differ in the row size, or two of one column in
\* the column size
Disagreement ==
  \E p, q \in Cells :
    /\ Concrete(p)
    /\ Concrete(q)
    /\ \/ p[1] = q[1] /\ ~SameRowSizes(p, q)
       \/ p[2] = q[2] /\ ~SameColSizes(p, q)

DummyArgs ==
  [comm : {MPI_COMM_WORLD, PETSC_COMM_SELF, MPI_COMM_NULL},
   rows : {<<0, 0>>, <<2, 3>>},
   cols : {<<0, 0>>, <<3, 4>>}]

\* the factory called with the arguments x on the resources as they are,
\* its f-th backend call failing
Factory(x, f) ==
  create_dummy_mat(Here(f), x.comm, x.rows[1], x.rows[2], x.cols[1], x.cols[2])

\* the position of the call on h in the log
CallAt(lg, call, h) ==
  CHOOSE i \in DOMAIN lg : lg[i] = [call |-> call, h |-> h]

\* t: the factory has returned a handle for the arguments x
Returned(x, t) ==
  /\ Ok(t)
  /\ t.dummy \notin {h \in DOMAIN mats : mats[h] # FreedMat}
  /\ Live(t.mats, t.dummy)
  /\ t.mats[t.dummy].comm = x.comm
  /\ t.mats[t.dummy].lr = x.rows[1]
  /\ t.mats[t.dummy].gr = x.rows[2]
  /\ t.mats[t.dummy].lc = x.cols[1]
  /\ t.mats[t.dummy].gc = x.cols[2]
  /\ t.mats[t.dummy].nnz = 0
  /\ t.mats[t.dummy].no_off_proc
  /\ t.mats[t.dummy].asm = "end"
  /\ Calls(t.log) = SubSeq(DummyCalls, 1, 9)
  /\ CallAt(t.log, "MatAssemblyBegin", t.dummy)
       < CallAt(t.log, "MatAssemblyEnd", t.dummy)

\* t: the factory has raised and has handed out nothing
Raised(t) ==
  /\ t.err = "BackendError"
  /\ t.dummy = 0
  /\ t.sub_objects = sub_objects

\* C22: on the resources as a construction, a reinit, a reinit(Mat) or a
\* synchronization leaves them, the placeholder factory returns a new
\* resource on the given process group with the given local and global
\* sizes, no nonzeros, the flag MAT_NO_OFF_PROC_ENTRIES set and the
\* assembly begun and then ended;
\* when one of its nine backend calls fails (the null group makes the
\* first one fail) it raises BackendError and returns no handle.
C22_PlaceholderFactory ==
  Usable /\ op.name \in {"construct", "reinit", "reinit_Mat", "collect_sizes"} =>
    \A x \in DummyArgs :
      /\ x.comm # MPI_COMM_NULL => Returned(x, Factory(x, 0))
      /\ x.comm = MPI_COMM_NULL => Raised(Factory(x, 0))
      /\ \A f \in 1..9 : Raised(Factory(x, f))

\* reinit(Mat) has returned with a placeholder from the factory in a cell:
\* finalized, empty, and closed to entries of other processes
C22_Witness ==
  /\ alive
  /\ op.name = "reinit_Mat"
  /\ op.err = "none"
  /\ \E p \in Cells :
       /\ SynthesizedNow(p)
       /\ mats[sub_objects[p].mat].asm = "end"
       /\ mats[sub_objects[p].mat].no_off_proc
       /\ mats[sub_objects[p].mat].nnz = 0


\* BlockIndices: the start index of every block and, last, the total
Offsets(sizes) ==
  [i \in 1..(Len(sizes) + 1) |-> SeqSum(SubSeq(sizes, 1, i - 1))]

StrictlyIncreasing(o) == \A i, j \in DOMAIN o : i < j => o[i] < o[j]
NonDecreasing(o) == \A i, j \in DOMAIN o : i < j => o[i] <= o[j]

Total(sizes) == Offsets(sizes)[Len(sizes) + 1]

\* C23: in every state of the object the cumulative offsets of the row and
\* of the column block index are strictly increasing and the total is the
\* sum of the block sizes.
C23_IndexInvariant ==
  alive =>
    /\ StrictlyIncreasing(Offsets(row_block_indices))
    /\ StrictlyIncreasing(Offsets(column_block_indices))
    /\ Total(row_block_indices) = SeqSum(row_block_indices)
    /\ Total(column_block_indices) = SeqSum(column_block_indices)

\* what does hold in every state: the offsets never decrease, the total is
\* the sum of the sizes, and there is one size per block row and column
C23_NonDecreasing ==
  alive =>
    /\ NonDecreasing(Offsets(row_block_indices))
    /\ NonDecreasing(Offsets(column_block_indices))
    /\ Total(row_block_indices) = SeqSum(row_block_indices)
    /\ Total(column_block_indices) = SeqSum(column_block_indices)
    /\ Len(row_block_indices) = nbr
    /\ Len(column_block_indices) = nbc


\* the entries of a log that are the release of the aggregate in
\* collect_sizes (destroy_matrix): a MatDestroy of a handle that no
\* MatCreate of the same operation returned
ReleaseEntries(lg) ==
  {i \in DOMAIN lg :
     /\ lg[i].call = "MatDestroy"
     /\ \A j \in 1..(i - 1) : ~(lg[j].call = "MatCreate" /\ lg[j].h = lg[i].h)}

\* C24 (the part of it that runs of this file exercise): in every
\* operation that synchronizes, the release of the aggregate is issued
\* after every call that builds or installs a placeholder, and only
\* MatCreateNest follows it; an operation that failed before the release
\* has built no aggregate, and the handle it found is the handle the
\* object has.
C24_ReleaseAfterPlaceholders ==
  alive /\ op.name \in {"collect_sizes", "reinit_Mat", "reinit_bdsp"} =>
    /\ Cardinality(ReleaseEntries(log)) <= 1
    /\ \A i \in ReleaseEntries(log) :
         \A j \in DOMAIN log : j > i => log[j].call = "MatCreateNest" /\ j = i + 1
    /\ op.err = "BackendError" /\ ReleaseEntries(log) = {} =>
         /\ \A j \in DOMAIN log : log[j].call # "MatCreateNest"
         /\ op.name = "collect_sizes" =>
              (op.had <=> petsc_nest_matrix # 0)
         /\ petsc_nest_matrix # 0 => Live(mats, petsc_nest_matrix)

\* a state the runs do reach: reinit(Mat) failed while it built a
\* placeholder, after it had installed another one
C24_FailedInPlaceholder ==
  /\ alive
  /\ op.name = "reinit_Mat"
  /\ op.err = "BackendError"
  /\ ReleaseEntries(log) = {}
  /\ \E p \in Cells : SynthesizedNow(p)

\* the state the claim is about, which no run reaches: a synchronization
\* that failed before the release on an object that had an aggregate
C24_FailedWithAggregate ==
  /\ alive
  /\ op.name \in {"collect_sizes", "reinit_Mat", "reinit_bdsp"}
  /\ op.err = "BackendError"
  /\ ReleaseEntries(log) = {}
  /\ op.had


\* the sub-resource at (r, c) of the handle A that reinit(Mat) was given
InputSub(A, r, c) ==
  IF mats[A].type = "nest" THEN mats[A].subs[r * mats[A].nc + c + 1] ELSE A

InputRows(A) == IF mats[A].type = "nest" THEN mats[A].nr ELSE 1
InputCols(A) == IF mats[A].type = "nest" THEN mats[A].nc ELSE 1

\* the handle A has a sub-resource, and a block row or a block column
\* that has none
HasEmptyLine(A) ==
  /\ \E r \in 0..(InputRows(A) - 1), c \in 0..(InputCols(A) - 1) :
       InputSub(A, r, c) # 0
  /\ \/ \E r \in 0..(InputRows(A) - 1) :
          \A c \in 0..(InputCols(A) - 1) : InputSub(A, r, c) = 0
     \/ \E c \in 0..(InputCols(A) - 1) :
          \A r \in 0..(InputRows(A) - 1) : InputSub(A, r, c) = 0

\* every cell of row r holds a placeholder of this operation with no rows,
\* and the row block index has size 0 for r
EmptyRow(r) ==
  /\ \A c \in 0..(nbc - 1) :
       /\ SynthesizedNow(<<r, c>>)
       /\ Block_m(mats, sub_objects[<<r, c>>]) = 0
       /\ Block_local_size(mats, sub_objects[<<r, c>>]) = 0
  /\ row_block_indices[r + 1] = 0

EmptyCol(c) ==
  /\ \A r \in 0..(nbr - 1) :
       /\ SynthesizedNow(<<r, c>>)
       /\ Block_n(mats, sub_objects[<<r, c>>]) = 0
       /\ Block_local_domain_size(mats, sub_objects[<<r, c>>]) = 0
  /\ column_block_indices[c + 1] = 0

====
